---- MODULE Spec2Model ----
(***************************************************************************)
(* Group-call signalling of the chat application: the GroupVideoCall       *)
(* component (chat-app/src/components/GroupVideoCall.tsx), the dialog that *)
(* mounts it (GroupVideoCallButton) and the Firestore documents it uses as *)
(* a signalling channel:                                                   *)
(*   groupCalls/<callId>                          the call record          *)
(*   groupCalls/<callId>/connections/<a>_<b>      offer / answer of a pair *)
(*   .../connections/<a>_<b>/candidates/<auto>    ICE candidates           *)
(* Every client is one browser running one GroupVideoCall component; a     *)
(* client mounts the component at most once.  An await of the source is a  *)
(* point where other clients' steps may interleave, so an async function   *)
(* is a chain of actions, one per continuation.                            *)
(***************************************************************************)
EXTENDS Integers, Sequences, FiniteSets, TLC

(***************************************************************************)
(* User IDs are strings, modelled as sequences of UTF-16 code units so     *)
(* that the string comparison of the source is computed, not assumed.      *)
(***************************************************************************)
UserA  == <<97>>
UserAB == <<97, 98>>
UserB  == <<98>>
Users  == {UserA, UserAB, UserB}

Underscore == 95

\* JavaScript's a < b on strings: the first differing code unit decides; a
\* proper prefix is smaller.
RECURSIVE StrLess(_, _)
StrLess(a, b) ==
  IF b = <<>> THEN FALSE
  ELSE IF a = <<>> THEN TRUE
  ELSE IF Head(a) # Head(b) THEN Head(a) < Head(b)
  ELSE StrLess(Tail(a), Tail(b))

\* A plausible slip: comparing the lengths of the IDs instead of the IDs.
ShouldCreateOffer_ByLength(currentUserId, participantId) ==
  Len(currentUserId) < Len(participantId)

\* const shouldCreateOffer = currentUserId < participantId
ShouldCreateOffer(currentUserId, participantId) ==
  StrLess(currentUserId, participantId)

\* shouldCreateOffer ? `${currentUserId}_${participantId}`
\*                   : `${participantId}_${currentUserId}`
ConnectionId(currentUserId, participantId) ==
  IF ShouldCreateOffer(currentUserId, participantId)
  THEN currentUserId \o <<Underscore>> \o participantId
  ELSE participantId \o <<Underscore>> \o currentUserId

\* Array.prototype.filter(id => id !== x)
RECURSIVE Without(_, _)
Without(s, x) ==
  IF s = <<>> THEN <<>>
  ELSE IF Head(s) = x THEN Without(Tail(s), x)
  ELSE <<Head(s)>> \o Without(Tail(s), x)

\* Array.prototype.includes
Includes(s, x) == \E i \in DOMAIN s : s[i] = x

NoCall == 0
GroupId == "g"

VARIABLES
  members,        \* the users of the group that use the application
  perm,           \* per user, what getUserMedia grants: "both", "audio", "none"
  calls,          \* the groupCalls collection: callId = index
  life,           \* per client: "fresh", "mounted", "unmounted"
  init,           \* per client, the position of initializeCall
  qres,           \* per client, the query result initializeCall acts on
  callDocId,      \* per client, initializeCall's local callDocId
  callId,         \* per client, the component state callId (latest render)
  effCallId,      \* per client, callId as captured by the mount effect
  participants,   \* per client, the component state participants (ids)
  effParticipants,\* per client, participants as captured by the mount effect
  stream,         \* per client, localStreamRef.current
  isVideoOff, isMicMuted, isCallActive, isJoining,
  clean,          \* per client, the pending updateDoc of a running cleanup
  cleanups,       \* per client, whether cleanup has been called
  ended,          \* per client, whether onEndCall has been called
  lis,            \* per client, the call document its listener watches
  snap,           \* per client, the last snapshot delivered to that listener
  tasks,          \* per client, the running participants handlers
  pcs,            \* per client, the RTCPeerConnections it created, in order
  pcRef,          \* per client, peerConnectionsRef.current: peer -> index
  conn,           \* the connections sub-collections: <<callId, id>> -> doc
  cands,          \* the candidates sub-collections: a set of documents
  timers          \* pending setTimeout callbacks of the candidates listeners

memberVars == <<members, perm>>
callVars   == <<calls>>
compVars   == <<life, init, qres, callDocId, callId, effCallId, participants,
                effParticipants, stream, isVideoOff, isMicMuted, isCallActive,
                isJoining, clean, cleanups, ended, lis, snap>>
meshVars   == <<tasks, pcs, pcRef, conn>>
iceVars    == <<cands, timers>>
vars       == <<memberVars, callVars, compVars, meshVars, iceVars>>

\* localStreamRef.current: null, or the kinds of the tracks of a MediaStream.
NoStream == {"null"}
NoQuery  == [id |-> NoCall, participants |-> <<>>]
NoSnap   == [exists |-> FALSE, status |-> "none", participants |-> <<>>]

\* What a snapshot of call document c shows.
CallSnap(c) ==
  [exists |-> TRUE, status |-> calls[c].status,
   participants |-> calls[c].participants]

\* where('groupId', '==', groupId), where('status', '==', 'active')
ActiveCalls ==
  {c \in DOMAIN calls : calls[c].groupId = GroupId /\ calls[c].status = "active"}

\* Session descriptions, by what tells them apart: who created them, on
\* which of its connections, as which of that connection's offers (seq), and
\* for an answer the connection of the offer it answers (re).
NoDesc == [type |-> "none", by |-> <<>>, pc |-> 0, seq |-> 0, re |-> 0]
\* The first offer of client u's n-th peer connection.
Offer(u, n) == [type |-> "offer", by |-> u, pc |-> n, seq |-> 1, re |-> 0]
\* The answer client u's n-th peer connection created to offer o.
Answer(u, n, o) ==
  [type |-> "answer", by |-> u, pc |-> n, seq |-> o.seq, re |-> o.pc]

NoConn == [exists |-> FALSE, offer |-> NoDesc, answer |-> NoDesc,
           offerer |-> <<>>, receiver |-> <<>>]
NoRefs == [p \in Users |-> 0]

\* new RTCPeerConnection(servers), as setupPeerConnection(participantId,
\* callDocId) of client u leaves it before any await.
NewPc(u, participantId, cid) ==
  [peer |-> participantId, call |-> cid,
   should |-> ShouldCreateOffer(u, participantId),
   connId |-> ConnectionId(u, participantId),
   pendingLocal |-> NoDesc, currentLocal |-> NoDesc,
   pendingRemote |-> NoDesc, currentRemote |-> NoDesc, closed |-> FALSE,
   onicecandidate |-> FALSE, listening |-> FALSE, lastConn |-> NoConn,
   storing |-> FALSE, connectionState |-> "new", restart |-> FALSE,
   emitted |-> 0, seen |-> {}, added |-> {}, retried |-> {},
   handlers |-> <<>>, answers |-> 0]

\* The state before any dialog is opened, for a group whose members ms use
\* the application and whose devices grant what pm says.
InitWith(ms, pm) ==
  /\ members = ms
  /\ perm = pm
  /\ calls = <<>>
  /\ life = [u \in Users |-> "fresh"]
  /\ init = [u \in Users |-> "idle"]
  /\ qres = [u \in Users |-> NoQuery]
  /\ callDocId = [u \in Users |-> NoCall]
  /\ callId = [u \in Users |-> NoCall]
  /\ effCallId = [u \in Users |-> NoCall]
  /\ participants = [u \in Users |-> <<>>]
  /\ effParticipants = [u \in Users |-> <<>>]
  /\ stream = [u \in Users |-> NoStream]
  /\ isVideoOff = [u \in Users |-> FALSE]
  /\ isMicMuted = [u \in Users |-> FALSE]
  /\ isCallActive = [u \in Users |-> FALSE]
  /\ isJoining = [u \in Users |-> TRUE]
  /\ clean = [u \in Users |-> <<>>]
  /\ cleanups = [u \in Users |-> FALSE]
  /\ ended = [u \in Users |-> FALSE]
  /\ lis = [u \in Users |-> NoCall]
  /\ snap = [u \in Users |-> NoSnap]
  /\ tasks = [u \in Users |-> <<>>]
  /\ pcs = [u \in Users |-> <<>>]
  /\ pcRef = [u \in Users |-> NoRefs]
  /\ conn = [k \in {} |-> NoConn]
  /\ cands = {}
  /\ timers = {}

GrantAll == [u \in Users |-> "both"]
Pairs == {ms \in SUBSET Users : Cardinality(ms) = 2}

\* Three members, every device granted.
Init == InitWith(Users, GrantAll)

\* Any two members, every device granted.
PairInit == \E ms \in Pairs : InitWith(ms, GrantAll)

\* Two members, any outcome of getUserMedia for each.
MediaInit ==
  \E pm \in [Users -> {"both", "audio", "none"}] :
    /\ pm[UserB] = "both"
    /\ InitWith({UserA, UserAB}, pm)

\* A state setter of the component of client u: React drops the update of
\* a component that is not mounted.
SetState(state, u, value) ==
  IF life[u] = "mounted" THEN [state EXCEPT ![u] = value] ELSE state

(***************************************************************************)
(* cleanup                                                                 *)
(***************************************************************************)

\* A plausible slip: only an empty call is ended, the creator's leaving is not.
ShouldEndCall_OnlyEmpty(creatorId, currentUserId, updatedParticipants) ==
  Len(updatedParticipants) = 0

\* callData && callData.creatorId === currentUserId
\*   || updatedParticipants.length === 0
ShouldEndCall(creatorId, currentUserId, updatedParticipants) ==
  creatorId = currentUserId \/ Len(updatedParticipants) = 0

\* cleanup's getDoc and what it computes from it: the updateDoc to issue.
\* cs is the groupCalls collection the getDoc reads.
CleanupRead(u, cid, cs, andEnd) ==
  LET updatedParticipants == Without(cs[cid].participants, u)
  IN [id |-> cid, participants |-> updatedParticipants,
      end |-> ShouldEndCall(cs[cid].creatorId, u, updatedParticipants),
      andEnd |-> andEnd]

\* An updateDoc of cleanup that writes the status on either branch.
CleanupUpdate_WritesStatus(w) ==
  [calls EXCEPT ![w.id] =
     IF w.end
     THEN [@ EXCEPT !.status = "ended", !.participants = w.participants,
                    !.endTime = TRUE]
     ELSE [@ EXCEPT !.status = "active", !.participants = w.participants]]

\* cleanup's updateDoc w applied to the groupCalls collection.
CleanupUpdate(w) ==
  [calls EXCEPT ![w.id] =
     IF w.end
     THEN [@ EXCEPT !.status = "ended", !.participants = w.participants,
                    !.endTime = TRUE]
     ELSE [@ EXCEPT !.participants = w.participants]]

\* pc.close() on every connection of peerConnectionsRef.current
PcsClosed(u) ==
  [i \in DOMAIN pcs[u] |->
     IF i \in {pcRef[u][p] : p \in Users}
     THEN [pcs[u][i] EXCEPT !.closed = TRUE]
     ELSE pcs[u][i]]

\* The part of cleanup before its first await: tracks stopped, the
\* connections of peerConnectionsRef closed, the participants state reset.
CleanupSync(u) ==
  /\ stream' = [stream EXCEPT ![u] = NoStream]
  /\ pcs' = [pcs EXCEPT ![u] = PcsClosed(u)]
  /\ pcRef' = [pcRef EXCEPT ![u] = NoRefs]
  /\ participants' = SetState(participants, u, <<>>)
  /\ cleanups' = [cleanups EXCEPT ![u] = TRUE]

\* cleanup as the mount effect, the catch of initializeCall and the call
\* listener call it: the closure of the first render, so `if (callId)` tests
\* effCallId.  q is the queue of pending updateDocs it is added to, cs the
\* collection its getDoc reads.
ClosureCleanup(u, q, cs) ==
  IF effCallId[u] = NoCall THEN q
  ELSE Append(q, CleanupRead(u, effCallId[u], cs, FALSE))

(***************************************************************************)
(* initializeCall                                                          *)
(***************************************************************************)

\* getDocs(groupCallsQuery) and querySnapshot.docs[0]
QueryResults ==
  IF ActiveCalls = {} THEN {NoQuery}
  ELSE {[id |-> c, participants |-> calls[c].participants] : c \in ActiveCalls}

\* The dialog opens and mounts the component; the mount effect runs
\* initializeCall up to the result of its query.
Mount(u) ==
  /\ u \in members
  /\ life[u] = "fresh"
  /\ life' = [life EXCEPT ![u] = "mounted"]
  /\ effCallId' = [effCallId EXCEPT ![u] = callId[u]]
  /\ effParticipants' = [effParticipants EXCEPT ![u] = participants[u]]
  /\ \E q \in QueryResults : qres' = [qres EXCEPT ![u] = q]
  /\ init' = [init EXCEPT ![u] = "write"]
  /\ UNCHANGED <<memberVars, callVars, callDocId, callId, participants, stream,
                 isVideoOff, isMicMuted, isCallActive, isJoining, clean,
                 cleanups, ended, lis, snap, meshVars, iceVars>>

\* As Mount, but the query is rejected: the catch of initializeCall runs
\* cleanup() and onEndCall(), and the dialog unmounts the component.
MountQueryFails(u) ==
  /\ u \in members
  /\ life[u] = "fresh"
  /\ life' = [life EXCEPT ![u] = "unmounted"]
  /\ effCallId' = [effCallId EXCEPT ![u] = callId[u]]
  /\ effParticipants' = [effParticipants EXCEPT ![u] = participants[u]]
  /\ init' = [init EXCEPT ![u] = "failed"]
  /\ stream' = [stream EXCEPT ![u] = NoStream]
  /\ pcs' = [pcs EXCEPT ![u] = PcsClosed(u)]
  /\ pcRef' = [pcRef EXCEPT ![u] = NoRefs]
  /\ cleanups' = [cleanups EXCEPT ![u] = TRUE]
  /\ ended' = [ended EXCEPT ![u] = TRUE]
  /\ clean' = [clean EXCEPT
                 ![u] = ClosureCleanup(u, ClosureCleanup(u, @, calls), calls)]
  /\ UNCHANGED <<memberVars, callVars, qres, callDocId, callId, isVideoOff,
                 isCallActive, participants,
                 isMicMuted, isJoining, lis, snap, tasks, conn, iceVars>>

NewCall(u) ==
  [groupId |-> GroupId, creatorId |-> u, status |-> "active",
   participants |-> <<u>>, endTime |-> FALSE]

\* The write initializeCall makes with its query result: addDoc of a new
\* call, or updateDoc of the participants of the call found; setCallId.
InitWrite(u) ==
  /\ init[u] = "write"
  /\ LET q == qres[u]
         cid == IF q.id = NoCall THEN Len(calls) + 1 ELSE q.id
     IN /\ calls' =
             IF q.id = NoCall THEN Append(calls, NewCall(u))
             ELSE IF ~Includes(q.participants, u)
             THEN [calls EXCEPT ![cid].participants = Append(q.participants, u)]
             ELSE calls
        /\ callDocId' = [callDocId EXCEPT ![u] = cid]
        /\ callId' = SetState(callId, u, cid)
  /\ init' = [init EXCEPT ![u] = "media1"]
  /\ UNCHANGED <<memberVars, life, qres, effCallId, participants,
                 effParticipants, stream, isVideoOff, isMicMuted, isCallActive,
                 isJoining, clean, cleanups, ended, lis, snap, meshVars, iceVars>>

\* The end of initializeCall once it holds stream s: localStreamRef set, the
\* user added to the participants state, the call marked active and
\* listenForParticipants(callDocId) attached.
InitFinish(u, s) ==
  /\ stream' = [stream EXCEPT ![u] = s]
  /\ participants' = SetState(participants, u,
                               Append(Without(participants[u], u), u))
  /\ isCallActive' = SetState(isCallActive, u, TRUE)
  /\ isJoining' = SetState(isJoining, u, FALSE)
  /\ lis' = [lis EXCEPT ![u] = callDocId[u]]
  /\ init' = [init EXCEPT ![u] = "done"]

\* A plausible slip (the variant without fallback): a rejected getUserMedia
\* reaches the outer catch, which runs cleanup() and onEndCall().
GetUserMediaBoth_NoFallback(u) ==
  /\ init[u] = "media1"
  /\ IF perm[u] = "both"
     THEN /\ InitFinish(u, {"video", "audio"})
          /\ UNCHANGED <<life, clean, cleanups, ended, pcs, pcRef>>
     ELSE /\ init' = [init EXCEPT ![u] = "failed"]
          /\ CleanupSync(u)
          /\ ended' = [ended EXCEPT ![u] = TRUE]
          /\ life' = [life EXCEPT ![u] = "unmounted"]
          /\ isCallActive' = SetState(isCallActive, u, FALSE)
          /\ clean' = [clean EXCEPT ![u] = ClosureCleanup(u, @, calls)]
          /\ UNCHANGED <<isJoining, lis>>
  /\ UNCHANGED <<memberVars, callVars, qres, callDocId, callId, effCallId,
                 effParticipants, isVideoOff, isMicMuted, snap, tasks, conn,
                 iceVars>>

\* getUserMedia({video: true, audio: true}) settles.
GetUserMediaBoth(u) ==
  /\ init[u] = "media1"
  /\ IF perm[u] = "both"
     THEN InitFinish(u, {"video", "audio"})
     ELSE /\ init' = [init EXCEPT ![u] = "media2"]
          /\ UNCHANGED <<stream, participants, isCallActive, isJoining, lis>>
  /\ UNCHANGED <<memberVars, callVars, life, qres, callDocId, callId, effCallId,
                 effParticipants, isVideoOff, isMicMuted, clean, cleanups,
                 ended, snap, meshVars, iceVars>>

\* getUserMedia({video: false, audio: true}) settles.
GetUserMediaAudio(u) ==
  /\ init[u] = "media2"
  /\ isVideoOff' = SetState(isVideoOff, u, TRUE)
  /\ IF perm[u] = "audio"
     THEN /\ InitFinish(u, {"audio"})
          /\ UNCHANGED isMicMuted
     ELSE /\ InitFinish(u, {})
          /\ isMicMuted' = SetState(isMicMuted, u, TRUE)
  /\ UNCHANGED <<memberVars, callVars, life, qres, callDocId, callId, effCallId,
                 effParticipants, clean, cleanups, ended, snap, meshVars,
                 iceVars>>

(***************************************************************************)
(* Leaving: the Leave button (endCall), closing the dialog, the call       *)
(* document's listener.                                                    *)
(***************************************************************************)

\* The Leave button: endCall of the latest render runs cleanup up to the
\* result of its getDoc.  With callId unset there is nothing to await:
\* cleanup returns, onEndCall() closes the dialog and the component unmounts.
\* The user presses the button once.
EndCallClick(u) ==
  /\ life[u] = "mounted"
  /\ ~cleanups[u]
  /\ CleanupSync(u)
  /\ IF callId[u] = NoCall
     THEN /\ isCallActive' = SetState(isCallActive, u, FALSE)
          /\ ended' = [ended EXCEPT ![u] = TRUE]
          /\ life' = [life EXCEPT ![u] = "unmounted"]
          /\ clean' = [clean EXCEPT ![u] = ClosureCleanup(u, @, calls)]
     ELSE /\ clean' = [clean EXCEPT
                         ![u] = Append(@, CleanupRead(u, callId[u], calls, TRUE))]
          /\ UNCHANGED <<isCallActive, ended, life>>
  /\ UNCHANGED <<memberVars, callVars, init, qres, callDocId, callId, effCallId,
                 effParticipants, isVideoOff, isMicMuted, isJoining, lis, snap,
                 tasks, conn, iceVars>>

\* The updateDoc of a running cleanup reaches Firestore and cleanup returns;
\* endCall then calls onEndCall(), which closes the dialog.
CleanupWrite(u) ==
  /\ clean[u] # <<>>
  /\ LET w == Head(clean[u])
         unmounts == w.andEnd /\ life[u] = "mounted"
     IN /\ calls' = CleanupUpdate(w)
        /\ isCallActive' = SetState(isCallActive, u, FALSE)
        /\ callId' = SetState(callId, u, NoCall)
        /\ ended' = [ended EXCEPT ![u] = @ \/ w.andEnd]
        /\ life' = [life EXCEPT ![u] = IF unmounts THEN "unmounted" ELSE @]
        /\ clean' = [clean EXCEPT
                       ![u] = IF unmounts
                              THEN ClosureCleanup(u, Tail(@), CleanupUpdate(w))
                              ELSE Tail(@)]
        /\ IF unmounts THEN CleanupSync(u)
           ELSE UNCHANGED <<stream, pcs, pcRef, participants, cleanups>>
  /\ UNCHANGED <<memberVars, init, qres, callDocId, effCallId, effParticipants,
                 isVideoOff, isMicMuted, isJoining, lis, snap, tasks, conn,
                 iceVars>>

\* The dialog is closed without Leave (onOpenChange): the component
\* unmounts and React runs the cleanup of the mount effect.
CloseDialog(u) ==
  /\ life[u] = "mounted"
  /\ life' = [life EXCEPT ![u] = "unmounted"]
  /\ stream' = [stream EXCEPT ![u] = NoStream]
  /\ pcs' = [pcs EXCEPT ![u] = PcsClosed(u)]
  /\ pcRef' = [pcRef EXCEPT ![u] = NoRefs]
  /\ cleanups' = [cleanups EXCEPT ![u] = TRUE]
  /\ clean' = [clean EXCEPT ![u] = ClosureCleanup(u, @, calls)]
  /\ UNCHANGED <<memberVars, callVars, init, qres, callDocId, callId, effCallId,
                 effParticipants, isVideoOff, isMicMuted, isJoining, ended, lis,
                 snap, tasks, conn, iceVars, participants, isCallActive>>

\* Array.from(new Set(firestoreParticipants)) filtered by the handler's test
\* participantId !== currentUserId && !currentParticipantsSet.has(participantId)
RECURSIVE Joined(_, _, _)
Joined(firestoreParticipants, currentUserId, currentParticipantIds) ==
  IF firestoreParticipants = <<>> THEN <<>>
  ELSE LET p == Head(firestoreParticipants)
           rest == Joined(Without(Tail(firestoreParticipants), p),
                          currentUserId, currentParticipantIds)
       IN IF p # currentUserId /\ ~Includes(currentParticipantIds, p)
          THEN <<p>> \o rest
          ELSE rest

\* currentParticipantIds filtered by
\* participantId !== currentUserId && !newParticipantsSet.has(participantId)
RECURSIVE Left(_, _, _)
Left(currentParticipantIds, currentUserId, firestoreParticipants) ==
  IF currentParticipantIds = <<>> THEN <<>>
  ELSE LET p == Head(currentParticipantIds)
           rest == Left(Tail(currentParticipantIds), currentUserId,
                        firestoreParticipants)
       IN IF p # currentUserId /\ ~Includes(firestoreParticipants, p)
          THEN <<p>> \o rest
          ELSE rest

\* cleanupParticipantConnection for every participant of gone: the
\* connection peerConnectionsRef holds is closed and deleted, the
\* participant removed from the participants state.
PcsGone(pcsU, refU, gone) ==
  [i \in DOMAIN pcsU |->
     IF i \in {refU[gone[k]] : k \in DOMAIN gone}
     THEN [pcsU[i] EXCEPT !.closed = TRUE]
     ELSE pcsU[i]]

RefGone(refU, gone) ==
  [p \in Users |-> IF Includes(gone, p) THEN 0 ELSE refU[p]]

RECURSIVE WithoutAll(_, _)
WithoutAll(s, gone) ==
  IF gone = <<>> THEN s ELSE WithoutAll(Without(s, Head(gone)), Tail(gone))

(***************************************************************************)
(* setupPeerConnection.  What one client's handler changes is gathered in  *)
(* a record m: its connections (pcs), peerConnectionsRef (ref), its        *)
(* participants state (parts) and the connections sub-collections (conn).  *)
(***************************************************************************)

Mesh(u) ==
  [pcs |-> pcs[u], ref |-> pcRef[u], parts |-> participants[u], conn |-> conn]

\* setupPeerConnection(participantId, callDocId) of client u from its start
\* to the first await after the connection exists: the answerer attaches
\* onicecandidate and both listeners and returns; the offerer has created
\* its offer and set it as local description (pending: the signalling state
\* is have-local-offer) and awaits the setDoc that stores it.
SetupCreated(m, u, participantId, cid) ==
  LET n == Len(m.pcs) + 1
      pc == NewPc(u, participantId, cid)
  IN [m EXCEPT
        !.pcs = Append(@, IF pc.should
                          THEN [pc EXCEPT !.pendingLocal = Offer(u, n)]
                          ELSE [pc EXCEPT !.onicecandidate = TRUE,
                                          !.listening = TRUE]),
        !.ref = [@ EXCEPT ![participantId] = n],
        !.parts = Append(Without(@, participantId), participantId)]

\* The document the offerer's setDoc writes: setDoc replaces the document.
OfferDoc(u, participantId, offer) ==
  [exists |-> TRUE, offer |-> offer, answer |-> NoDesc,
   offerer |-> u, receiver |-> participantId]

\* The rest of the offerer's setupPeerConnection for its connection n: the
\* setDoc of `${currentUserId}_${participantId}` reaches Firestore, then
\* onicecandidate and both listeners are attached.
SetupStored(m, u, n) ==
  LET pc == m.pcs[n]
      key == <<pc.call, u \o <<Underscore>> \o pc.peer>>
  IN [m EXCEPT
        !.conn = (key :> OfferDoc(u, pc.peer, pc.pendingLocal)) @@ @,
        !.pcs = [@ EXCEPT ![n].onicecandidate = TRUE, ![n].listening = TRUE]]

\* The handler's loop over the participants who left.
GoneCleaned(m, gone) ==
  [m EXCEPT !.pcs = PcsGone(@, m.ref, gone),
            !.ref = RefGone(@, gone),
            !.parts = WithoutAll(@, gone)]

\* for (const participantId of newParticipantsArray)
\*   await setupPeerConnection(participantId, callDocId)
RECURSIVE SetupAll(_, _, _, _)
SetupAll(m, u, todo, cid) ==
  IF todo = <<>> THEN m
  ELSE LET m1 == SetupCreated(m, u, Head(todo), cid)
           m2 == IF ShouldCreateOffer(u, Head(todo))
                 THEN SetupStored(m1, u, Len(m1.pcs))
                 ELSE m1
       IN SetupAll(m2, u, Tail(todo), cid)

\* The handler's changes written back.
MeshSet(u, m) ==
  /\ pcs' = [pcs EXCEPT ![u] = m.pcs]
  /\ pcRef' = [pcRef EXCEPT ![u] = m.ref]
  /\ participants' = SetState(participants, u, m.parts)
  /\ conn' = m.conn

\* The cleanup() and onEndCall() the listener runs for an ended call.
CallEnded(u) ==
  /\ stream' = [stream EXCEPT ![u] = NoStream]
  /\ cleanups' = [cleanups EXCEPT ![u] = TRUE]
  /\ MeshSet(u, [Mesh(u) EXCEPT !.pcs = PcsClosed(u), !.ref = NoRefs,
                                !.parts = <<>>])
  /\ isCallActive' = IF effCallId[u] = NoCall
                     THEN SetState(isCallActive, u, FALSE) ELSE isCallActive
  /\ callId' = IF effCallId[u] = NoCall
               THEN SetState(callId, u, NoCall) ELSE callId
  /\ ended' = [ended EXCEPT ![u] = TRUE]
  /\ life' = [life EXCEPT ![u] = IF @ = "mounted" THEN "unmounted" ELSE @]
  /\ clean' = [clean EXCEPT
                 ![u] = LET q == ClosureCleanup(u, @, calls)
                        IN IF life[u] = "mounted"
                           THEN ClosureCleanup(u, q, calls) ELSE q]

\* The listener listenForParticipants attached receives a snapshot of the
\* call document.  It is the closure of the first render: cleanup sees
\* effCallId and the handler sees effParticipants.  An ended call runs
\* cleanup() and onEndCall(); otherwise the handler sets up a connection to
\* every participant it takes for new, one after the other, and then cleans
\* up those it takes for gone.  Here the handler runs to its end with no
\* other step between its awaits.  The listener is never unsubscribed, so it
\* outlives the component.
CallSnapshot(u) ==
  /\ lis[u] # NoCall
  /\ snap[u] # CallSnap(lis[u])
  /\ tasks[u] = <<>>
  /\ snap' = [snap EXCEPT ![u] = CallSnap(lis[u])]
  /\ IF calls[lis[u]].status = "ended"
     THEN CallEnded(u)
     ELSE /\ MeshSet(u, GoneCleaned(
                 SetupAll(Mesh(u), u,
                          Joined(calls[lis[u]].participants, u,
                                 effParticipants[u]),
                          lis[u]),
                 Left(effParticipants[u], u, calls[lis[u]].participants)))
          /\ UNCHANGED <<stream, cleanups, isCallActive, ended, life, clean,
                         callId>>
  /\ UNCHANGED <<memberVars, callVars, init, qres, callDocId, effCallId,
                 effParticipants, isVideoOff, isMicMuted, isJoining, lis, tasks,
                 iceVars>>

(***************************************************************************)
(* The same handler, one action per continuation: the steps of other       *)
(* clients and the events of the connection interleave with its awaits.    *)
(***************************************************************************)

\* The sequence s without its t-th element.
Drop(s, t) == SubSeq(s, 1, t - 1) \o SubSeq(s, t + 1, Len(s))

\* The snapshot arrives and the handler runs up to its first await, the
\* getDoc of the first new participant's profile.
CallSnapshotBegin(u) ==
  /\ lis[u] # NoCall
  /\ snap[u] # CallSnap(lis[u])
  /\ snap' = [snap EXCEPT ![u] = CallSnap(lis[u])]
  /\ IF calls[lis[u]].status = "ended"
     THEN CallEnded(u) /\ UNCHANGED tasks
     ELSE LET todo == Joined(calls[lis[u]].participants, u, effParticipants[u])
              gone == Left(effParticipants[u], u, calls[lis[u]].participants)
          IN /\ IF todo = <<>>
                THEN /\ MeshSet(u, GoneCleaned(Mesh(u), gone))
                     /\ UNCHANGED tasks
                ELSE /\ tasks' = [tasks EXCEPT
                                    ![u] = Append(@, [todo |-> todo,
                                                      call |-> lis[u],
                                                      stage |-> "setup",
                                                      pc |-> 0,
                                                      gone |-> gone])]
                     /\ UNCHANGED <<pcs, pcRef, participants, conn>>
             /\ UNCHANGED <<stream, cleanups, isCallActive, ended, life, clean,
                            callId>>
  /\ UNCHANGED <<memberVars, callVars, init, qres, callDocId, effCallId,
                 effParticipants, isVideoOff, isMicMuted, isJoining, lis,
                 iceVars>>

\* Handler t of client u once the setup of its first participant has
\* returned: on to the next one, or the handler ends.
TasksNext(u, t) ==
  LET k == tasks[u][t]
  IN IF Tail(k.todo) = <<>> THEN Drop(tasks[u], t)
     ELSE [tasks[u] EXCEPT ![t] = [k EXCEPT !.todo = Tail(@),
                                            !.stage = "setup", !.pc = 0]]

\* Handler t of client u runs setupPeerConnection for its next participant
\* up to the await of the offer's setDoc, or to its end on the answerer.
SetupCreate(u, t) ==
  /\ t \in DOMAIN tasks[u]
  /\ tasks[u][t].stage = "setup"
  /\ LET k == tasks[u][t]
         p == Head(k.todo)
         m == SetupCreated(Mesh(u), u, p, k.call)
         last == ~ShouldCreateOffer(u, p) /\ Tail(k.todo) = <<>>
     IN /\ MeshSet(u, IF last THEN GoneCleaned(m, k.gone) ELSE m)
        /\ tasks' = [tasks EXCEPT
                       ![u] = IF ShouldCreateOffer(u, p)
                              THEN [@ EXCEPT ![t].stage = "store",
                                             ![t].pc = Len(m.pcs)]
                              ELSE TasksNext(u, t)]
  /\ UNCHANGED <<memberVars, callVars, life, init, qres, callDocId, callId,
                 effCallId, effParticipants, stream, isVideoOff, isMicMuted,
                 isCallActive, isJoining, clean, cleanups, ended, lis, snap,
                 iceVars>>

\* Handler t of client u: the offer's setDoc has reached Firestore and
\* setupPeerConnection runs to its end.
SetupStore(u, t) ==
  /\ t \in DOMAIN tasks[u]
  /\ tasks[u][t].stage = "store"
  /\ LET k == tasks[u][t]
         m == SetupStored(Mesh(u), u, k.pc)
         last == Tail(k.todo) = <<>>
     IN /\ MeshSet(u, IF last THEN GoneCleaned(m, k.gone) ELSE m)
        /\ tasks' = [tasks EXCEPT ![u] = TasksNext(u, t)]
  /\ UNCHANGED <<memberVars, callVars, life, init, qres, callDocId, callId,
                 effCallId, effParticipants, stream, isVideoOff, isMicMuted,
                 isCallActive, isJoining, clean, cleanups, ended, lis, snap,
                 iceVars>>

\* RTCPeerConnection.remoteDescription: the pending one, else the current one.
RemoteDescription(pc) ==
  IF pc.pendingRemote # NoDesc THEN pc.pendingRemote ELSE pc.currentRemote

\* RTCPeerConnection.signalingState
SignalingState(pc) ==
  IF pc.closed THEN "closed"
  ELSE IF pc.pendingLocal # NoDesc THEN "have-local-offer"
  ELSE IF pc.pendingRemote # NoDesc THEN "have-remote-offer"
  ELSE "stable"

\* data.offer && !shouldCreateOffer && !peerConnection.currentLocalDescription
TakesOffer(pc, data) ==
  /\ data.offer # NoDesc
  /\ ~pc.should
  /\ pc.currentLocal = NoDesc

\* data.answer && shouldCreateOffer && peerConnection.currentLocalDescription
\* currentLocalDescription is the local description of the last completed
\* negotiation: it is null while the connection's own offer is pending.
TakesAnswer(pc, data) ==
  /\ data.answer # NoDesc
  /\ pc.should
  /\ pc.currentLocal # NoDesc

\* The listener of connection n of client u receives a snapshot of the
\* connection document.  An answerer takes the offer up to the await of the
\* updateDoc that stores its answer: setRemoteDescription(offer),
\* createAnswer, setLocalDescription(answer).  An offerer takes the answer:
\* setRemoteDescription(answer).  Either throws on a closed connection or
\* in the wrong signalling state, and the handler catches it.
ConnSnapshot(u, n) ==
  /\ n \in DOMAIN pcs[u]
  /\ LET pc == pcs[u][n]
         key == <<pc.call, pc.connId>>
     IN /\ pc.listening
        /\ key \in DOMAIN conn
        /\ conn[key] # pc.lastConn
        /\ LET data == conn[key]
               pc1 == [pc EXCEPT !.lastConn = data]
           IN pcs' = [pcs EXCEPT ![u][n] =
                IF TakesOffer(pc, data)
                THEN IF SignalingState(pc) \in {"stable", "have-remote-offer"}
                     THEN [pc1 EXCEPT !.currentRemote = data.offer,
                                      !.pendingRemote = NoDesc,
                                      !.currentLocal = Answer(u, n, data.offer),
                                      !.answers = @ + 1,
                                      !.storing = TRUE]
                     ELSE pc1
                ELSE IF TakesAnswer(pc, data)
                THEN IF SignalingState(pc) = "have-local-offer"
                     THEN [pc1 EXCEPT !.currentLocal = pc.pendingLocal,
                                      !.pendingLocal = NoDesc,
                                      !.currentRemote = data.answer]
                     ELSE pc1
                ELSE pc1]
  /\ UNCHANGED <<memberVars, callVars, compVars, tasks, pcRef, conn, iceVars>>

\* The answerer's updateDoc(connectionRef, {answer}) reaches Firestore.
AnswerStore(u, n) ==
  /\ n \in DOMAIN pcs[u]
  /\ pcs[u][n].storing
  /\ LET pc == pcs[u][n]
         key == <<pc.call, pc.connId>>
     IN /\ key \in DOMAIN conn
        /\ conn' = [conn EXCEPT ![key].answer = pc.currentLocal]
  /\ pcs' = [pcs EXCEPT ![u][n].storing = FALSE]
  /\ UNCHANGED <<memberVars, callVars, compVars, tasks, pcRef, iceVars>>

(***************************************************************************)
(* The same connection listener with the answerer's handler in two steps:  *)
(* a handler that takes an offer is in pc.handlers from its test of        *)
(* currentLocalDescription until its setLocalDescription(answer) has       *)
(* settled, and other snapshots are delivered in between.  pc.answers      *)
(* counts the calls of createAnswer.                                       *)
(***************************************************************************)

\* The snapshot arrives and the handler runs to its first await: an
\* answerer that takes the offer has called setRemoteDescription(offer).
ConnSnapshotBegin(u, n) ==
  /\ n \in DOMAIN pcs[u]
  /\ LET pc == pcs[u][n]
         key == <<pc.call, pc.connId>>
     IN /\ pc.listening
        /\ key \in DOMAIN conn
        /\ conn[key] # pc.lastConn
        /\ LET data == conn[key]
               pc1 == [pc EXCEPT !.lastConn = data]
           IN pcs' = [pcs EXCEPT ![u][n] =
                IF TakesOffer(pc, data)
                THEN [pc1 EXCEPT !.handlers = Append(@, [offer |-> data.offer])]
                ELSE IF TakesAnswer(pc, data)
                        /\ SignalingState(pc) = "have-local-offer"
                THEN [pc1 EXCEPT !.currentLocal = pc.pendingLocal,
                                 !.pendingLocal = NoDesc,
                                 !.currentRemote = data.answer]
                ELSE pc1]
  /\ UNCHANGED <<memberVars, callVars, compVars, tasks, pcRef, conn, iceVars>>

\* Handler h of connection n of client u runs on: setRemoteDescription(offer)
\* settles (rejected on a closed connection: the handler catches and ends),
\* createAnswer is called and settles, setLocalDescription(answer) settles,
\* and the handler awaits the updateDoc that stores the answer.  An answerer
\* is in stable or have-remote-offer, where a remote offer is accepted.
OfferAnswered(u, n, h) ==
  /\ n \in DOMAIN pcs[u]
  /\ h \in DOMAIN pcs[u][n].handlers
  /\ LET pc == pcs[u][n]
     IN pcs' = [pcs EXCEPT ![u][n] =
          IF pc.closed
          THEN [pc EXCEPT !.handlers = Drop(@, h)]
          ELSE [pc EXCEPT !.currentRemote = pc.handlers[h].offer,
                          !.pendingRemote = NoDesc,
                          !.currentLocal = Answer(u, n, pc.handlers[h].offer),
                          !.answers = @ + 1,
                          !.storing = TRUE,
                          !.handlers = Drop(@, h)]]
  /\ UNCHANGED <<memberVars, callVars, compVars, tasks, pcRef, conn, iceVars>>

(***************************************************************************)
(* ICE candidates                                                          *)
(***************************************************************************)

MaxCandidates == 1
MaxMLineIndex == 1
\* setTimeout(..., 2000), in seconds
RetryDelay == 2

\* RTCPeerConnection.localDescription: the pending one, else the current one.
LocalDescription(pc) ==
  IF pc.pendingLocal # NoDesc THEN pc.pendingLocal ELSE pc.currentLocal

\* The document onicecandidate stores for the k-th candidate of connection
\* n of client u: event.candidate.toJSON(), sender, under the connection ID
\* the handler computes.  sdpMid is the media section's mid, a digit string.
CandidateDoc(u, n, k, mline) ==
  [call |-> pcs[u][n].call,
   connId |-> ConnectionId(u, pcs[u][n].peer),
   sender |-> u, pc |-> n, k |-> k,
   candidate |-> "candidate", sdpMid |-> <<48 + mline>>,
   sdpMLineIndex |-> mline]

\* Connection n of client u gathers a candidate for media section mline and
\* fires icecandidate.  Gathering starts with setLocalDescription.  The
\* event reaches onicecandidate if the handler is assigned by then; an event
\* without a handler is gone.
EmitCandidate(u, n, mline) ==
  /\ n \in DOMAIN pcs[u]
  /\ ~pcs[u][n].closed
  /\ LocalDescription(pcs[u][n]) # NoDesc
  /\ pcs[u][n].emitted < MaxCandidates
  /\ pcs' = [pcs EXCEPT ![u][n].emitted = @ + 1]
  /\ cands' = IF pcs[u][n].onicecandidate
              THEN cands \cup {CandidateDoc(u, n, pcs[u][n].emitted + 1, mline)}
              ELSE cands
  /\ UNCHANGED <<memberVars, callVars, compVars, tasks, pcRef, conn, timers>>

\* !data.sdpMLineIndex || !data.candidate || !data.sdpMid, with JavaScript's
\* truthiness: 0 and the empty string are falsy.
Incomplete(data) ==
  \/ data.sdpMLineIndex = 0
  \/ data.candidate = ""
  \/ data.sdpMid = <<>>

\* The candidates listener of connection n of client u receives the added
\* document c.
CandSnapshot(u, n, c) ==
  /\ n \in DOMAIN pcs[u]
  /\ pcs[u][n].listening
  /\ c \in cands
  /\ c.call = pcs[u][n].call
  /\ c.connId = pcs[u][n].connId
  /\ c \notin pcs[u][n].seen
  /\ LET pc == pcs[u][n]
         skip == c.sender = u \/ Incomplete(c)
         has == RemoteDescription(pc) # NoDesc
     IN /\ pcs' = [pcs EXCEPT
                     ![u][n].seen = @ \cup {c},
                     ![u][n].added = IF ~skip /\ has /\ ~pc.closed
                                     THEN @ \cup {c} ELSE @]
        /\ timers' = IF ~skip /\ ~has
                     THEN timers \cup {[u |-> u, n |-> n, c |-> c,
                                        left |-> RetryDelay]}
                     ELSE timers
  /\ UNCHANGED <<memberVars, callVars, compVars, tasks, pcRef, conn, cands>>

\* A second passes.  A callback that is due runs first.
Tick ==
  /\ timers # {}
  /\ \A tm \in timers : tm.left > 0
  /\ timers' = {[tm EXCEPT !.left = @ - 1] : tm \in timers}
  /\ UNCHANGED <<memberVars, callVars, compVars, meshVars, cands>>

\* The delayed callback without its test of remoteDescription.
TimerFires_NoCheck(tm) ==
  /\ tm \in timers
  /\ tm.left = 0
  /\ timers' = timers \ {tm}
  /\ pcs' = [pcs EXCEPT
               ![tm.u][tm.n].retried = @ \cup {tm.c},
               ![tm.u][tm.n].added =
                  IF ~pcs[tm.u][tm.n].closed THEN @ \cup {tm.c} ELSE @]
  /\ UNCHANGED <<memberVars, callVars, compVars, tasks, pcRef, conn, cands>>

\* The setTimeout callback of a candidate received before the remote
\* description runs.
TimerFires(tm) ==
  /\ tm \in timers
  /\ tm.left = 0
  /\ timers' = timers \ {tm}
  /\ LET pc == pcs[tm.u][tm.n]
     IN pcs' = [pcs EXCEPT
                  ![tm.u][tm.n].retried = @ \cup {tm.c},
                  ![tm.u][tm.n].added =
                     IF RemoteDescription(pc) # NoDesc /\ ~pc.closed
                     THEN @ \cup {tm.c} ELSE @]
  /\ UNCHANGED <<memberVars, callVars, compVars, tasks, pcRef, conn, cands>>

(***************************************************************************)
(* onconnectionstatechange                                                 *)
(***************************************************************************)

\* The browser reports a new connection state of connection n of client u.
\* The ICE agent checks connectivity once both descriptions are set:
\* "new", then "connecting", then "connected" or "failed", and
\* "disconnected" after "connected".  On "failed" or "disconnected" the
\* handler calls restartIce() if this side is the offerer.  No handler of
\* negotiationneeded is assigned, so nothing follows from it.
NextStates(state) ==
  IF state = "new" THEN {"connecting"}
  ELSE IF state = "connecting" THEN {"connected", "failed"}
  ELSE IF state = "connected" THEN {"disconnected"}
  ELSE IF state = "disconnected" THEN {"failed"}
  ELSE {}

ConnectionStateChange(u, n, state) ==
  /\ n \in DOMAIN pcs[u]
  /\ ~pcs[u][n].closed
  /\ LocalDescription(pcs[u][n]) # NoDesc
  /\ RemoteDescription(pcs[u][n]) # NoDesc
  /\ state \in NextStates(pcs[u][n].connectionState)
  /\ state = "connected" =>
       \E m \in DOMAIN pcs[pcs[u][n].peer] :
         /\ pcs[pcs[u][n].peer][m].peer = u
         /\ RemoteDescription(pcs[pcs[u][n].peer][m]) # NoDesc
  /\ pcs' = [pcs EXCEPT
               ![u][n].connectionState = state,
               ![u][n].restart =
                  IF /\ state \in {"failed", "disconnected"}
                     /\ ShouldCreateOffer(u, pcs[u][n].peer)
                  THEN TRUE ELSE @]
  /\ UNCHANGED <<memberVars, callVars, compVars, tasks, pcRef, conn, iceVars>>


(***************************************************************************)
(* Specifications                                                          *)
(***************************************************************************)

\* Joining and leaving.
Membership ==
  \/ \E u \in Users : Mount(u)
  \/ \E u \in Users : MountQueryFails(u)
  \/ \E u \in Users : InitWrite(u)
  \/ \E u \in Users : GetUserMediaBoth(u)
  \/ \E u \in Users : EndCallClick(u)
  \/ \E u \in Users : CleanupWrite(u)
  \/ \E u \in Users : CloseDialog(u)

\* Offer and answer.
Signalling ==
  \/ \E u \in Users : \E n \in DOMAIN pcs[u] : ConnSnapshot(u, n)
  \/ \E u \in Users : \E n \in DOMAIN pcs[u] : AnswerStore(u, n)

\* Two members; every listener is served.
Next ==
  \/ Membership
  \/ \E u \in Users : CallSnapshot(u)
  \/ Signalling

Spec == PairInit /\ [][Next]_vars

\* Three members racing to join and leave; the snapshots of the call
\* document are still on their way.
RaceSpec == Init /\ [][Membership]_vars

\* Two members, any outcome of getUserMedia.
MediaNext ==
  \/ Membership
  \/ \E u \in Users : GetUserMediaAudio(u)
  \/ \E u \in Users : CallSnapshot(u)

MediaSpec == MediaInit /\ [][MediaNext]_vars

\* Two members who join and stay; every continuation of the participants
\* handler is a step of its own, candidates are gathered and exchanged,
\* time passes and the connection state changes.
IceNext ==
  \/ \E u \in Users : Mount(u)
  \/ \E u \in Users : InitWrite(u)
  \/ \E u \in Users : GetUserMediaBoth(u)
  \/ \E u \in Users : CallSnapshotBegin(u)
  \/ \E u \in Users : \E t \in DOMAIN tasks[u] : SetupCreate(u, t)
  \/ \E u \in Users : \E t \in DOMAIN tasks[u] : SetupStore(u, t)
  \/ Signalling
  \/ \E u \in Users : \E n \in DOMAIN pcs[u] :
       \E mline \in 0..MaxMLineIndex : EmitCandidate(u, n, mline)
  \/ \E u \in Users : \E n \in DOMAIN pcs[u] :
       \E c \in cands : CandSnapshot(u, n, c)
  \/ Tick
  \/ \E tm \in timers : TimerFires(tm)
  \/ \E u \in Users : \E n \in DOMAIN pcs[u] :
       \E state \in {"connecting", "connected", "disconnected", "failed"} :
         ConnectionStateChange(u, n, state)

IceSpec == PairInit /\ [][IceNext]_vars

\* Offer and answer, the answerer's handler in two steps.
SignallingSteps ==
  \/ \E u \in Users : \E n \in DOMAIN pcs[u] : ConnSnapshotBegin(u, n)
  \/ \E u \in Users : \E n \in DOMAIN pcs[u] :
       \E h \in DOMAIN pcs[u][n].handlers : OfferAnswered(u, n, h)
  \/ \E u \in Users : \E n \in DOMAIN pcs[u] : AnswerStore(u, n)

\* Three members who join and stay; the last to join is still at the
\* permission prompt of getUserMedia.
MeshNext ==
  \/ \E u \in Users : Mount(u)
  \/ \E u \in Users : InitWrite(u)
  \/ \E u \in Users \ {UserA} : GetUserMediaBoth(u)
  \/ \E u \in Users : CallSnapshot(u)
  \/ SignallingSteps

\* Member c has created the call, is in it alone and has received the
\* first snapshot of the call document; the others have not opened the
\* dialog yet.
JoinedAlone(c) ==
  /\ members = Users
  /\ perm = GrantAll
  /\ calls = <<NewCall(c)>>
  /\ life = [u \in Users |-> IF u = c THEN "mounted" ELSE "fresh"]
  /\ init = [u \in Users |-> IF u = c THEN "done" ELSE "idle"]
  /\ qres = [u \in Users |-> NoQuery]
  /\ callDocId = [u \in Users |-> IF u = c THEN 1 ELSE NoCall]
  /\ callId = [u \in Users |-> IF u = c THEN 1 ELSE NoCall]
  /\ effCallId = [u \in Users |-> NoCall]
  /\ participants = [u \in Users |-> IF u = c THEN <<c>> ELSE <<>>]
  /\ effParticipants = [u \in Users |-> <<>>]
  /\ stream = [u \in Users |->
                 IF u = c THEN {"video", "audio"} ELSE NoStream]
  /\ isVideoOff = [u \in Users |-> FALSE]
  /\ isMicMuted = [u \in Users |-> FALSE]
  /\ isCallActive = [u \in Users |-> u = c]
  /\ isJoining = [u \in Users |-> u # c]
  /\ clean = [u \in Users |-> <<>>]
  /\ cleanups = [u \in Users |-> FALSE]
  /\ ended = [u \in Users |-> FALSE]
  /\ lis = [u \in Users |-> IF u = c THEN 1 ELSE NoCall]
  /\ snap = [u \in Users |->
               IF u = c
               THEN [exists |-> TRUE, status |-> "active",
                     participants |-> <<c>>]
               ELSE NoSnap]
  /\ tasks = [u \in Users |-> <<>>]
  /\ pcs = [u \in Users |-> <<>>]
  /\ pcRef = [u \in Users |-> NoRefs]
  /\ conn = [k \in {} |-> NoConn]
  /\ cands = {}
  /\ timers = {}

MeshInit == JoinedAlone(UserAB)

MeshSpec == MeshInit /\ [][MeshNext]_vars

(***************************************************************************)
(* The copy of the component in PhilosophicalQuote.tsx.  Its cleanup, its  *)
(* query and its write to the call document are those of GroupVideoCall;   *)
(* its initializeCall has a single getUserMedia and no fallback.           *)
(***************************************************************************)

\* getUserMedia({video: true, audio: true}) of the copy settles.  Granted,
\* initializeCall runs to its end.  Rejected, the catch of initializeCall
\* runs cleanup() and onEndCall(): cleanup is the closure of the first
\* render, the dialog closes, the component unmounts and the cleanup of the
\* mount effect, the same closure, runs once more.
VariantGetUserMedia(u) ==
  /\ init[u] = "media1"
  /\ IF perm[u] = "both"
     THEN /\ InitFinish(u, {"video", "audio"})
          /\ UNCHANGED <<life, clean, cleanups, ended, pcs, pcRef, callId>>
     ELSE /\ init' = [init EXCEPT ![u] = "failed"]
          /\ CleanupSync(u)
          /\ ended' = [ended EXCEPT ![u] = TRUE]
          /\ life' = [life EXCEPT ![u] = "unmounted"]
          /\ isCallActive' = IF effCallId[u] = NoCall
                             THEN SetState(isCallActive, u, FALSE)
                             ELSE isCallActive
          /\ callId' = IF effCallId[u] = NoCall
                       THEN SetState(callId, u, NoCall) ELSE callId
          /\ clean' = [clean EXCEPT
                         ![u] = ClosureCleanup(u, ClosureCleanup(u, @, calls),
                                               calls)]
          /\ UNCHANGED <<isJoining, lis>>
  /\ UNCHANGED <<memberVars, callVars, qres, callDocId, effCallId,
                 effParticipants, isVideoOff, isMicMuted, snap, tasks, conn,
                 iceVars>>

\* Joining and leaving with the copy of the component.
VariantNext ==
  \/ \E u \in Users : Mount(u)
  \/ \E u \in Users : MountQueryFails(u)
  \/ \E u \in Users : InitWrite(u)
  \/ \E u \in Users : VariantGetUserMedia(u)
  \/ \E u \in Users : EndCallClick(u)
  \/ \E u \in Users : CleanupWrite(u)
  \/ \E u \in Users : CloseDialog(u)
  \/ \E u \in Users : CallSnapshot(u)

VariantSpec == MediaInit /\ [][VariantNext]_vars

(***************************************************************************)
(* Properties                                                              *)
(***************************************************************************)

\* The connections client u created for peer v.
PcsFor(u, v) == {n \in DOMAIN pcs[u] : pcs[u][n].peer = v}

\* Connection pc has created an offer.
MadeOffer(pc) ==
  pc.pendingLocal.type = "offer" \/ pc.currentLocal.type = "offer"

\* C1: for two distinct participants that each ran setupPeerConnection for
\* the other, exactly one side has created and stored the offer, and it is
\* the side with the smaller ID in JavaScript's string order; the other
\* side has created no offer; both sides use the connection document
\* <smaller>_<larger>, and that document names the smaller side as offerer.
C1_OneOfferer ==
  \A u, v \in Users :
    (u # v /\ StrLess(u, v) /\ PcsFor(u, v) # {} /\ PcsFor(v, u) # {}) =>
      /\ \A n \in PcsFor(u, v) :
           /\ MadeOffer(pcs[u][n])
           /\ pcs[u][n].connId = u \o <<Underscore>> \o v
           /\ <<pcs[u][n].call, u \o <<Underscore>> \o v>> \in DOMAIN conn
           /\ conn[<<pcs[u][n].call, u \o <<Underscore>> \o v>>].offer.by = u
           /\ conn[<<pcs[u][n].call, u \o <<Underscore>> \o v>>].offerer = u
      /\ \A n \in PcsFor(v, u) :
           /\ ~MadeOffer(pcs[v][n])
           /\ pcs[v][n].connId = u \o <<Underscore>> \o v
      /\ \A c \in DOMAIN calls :
           <<c, v \o <<Underscore>> \o u>> \notin DOMAIN conn

\* Two participants, one ID a proper prefix of the other, have each set up
\* a connection to the other and the offer is stored.
C1_Witness ==
  /\ PcsFor(UserA, UserAB) # {}
  /\ PcsFor(UserAB, UserA) # {}
  /\ \E c \in DOMAIN calls :
       <<c, UserA \o <<Underscore>> \o UserAB>> \in DOMAIN conn

\* Nothing the program does on its own is outstanding: no initializeCall or
\* cleanup is between two awaits, every snapshot has been delivered and
\* every answer stored.
Settled ==
  /\ \A u \in Users : init[u] \in {"idle", "done", "failed"}
  /\ \A u \in Users : clean[u] = <<>>
  /\ ~ENABLED (\E u \in Users : CallSnapshot(u))
  /\ ~ENABLED Signalling

\* Participants a and b of call c have completed negotiation: a's offer is
\* stored, b's answer to that offer is stored, and the connection of a that
\* made the offer has that answer as its remote description.
Negotiated(c, a, b) ==
  LET key == <<c, a \o <<Underscore>> \o b>>
  IN /\ key \in DOMAIN conn
     /\ conn[key].offer.type = "offer"
     /\ conn[key].offer.by = a
     /\ conn[key].answer.type = "answer"
     /\ conn[key].answer.by = b
     /\ conn[key].answer.re = conn[key].offer.pc
     /\ conn[key].offer.pc \in DOMAIN pcs[a]
     /\ RemoteDescription(pcs[a][conn[key].offer.pc]) = conn[key].answer

\* Client u is in call c: listed, its component mounted and through
\* initializeCall, its listener attached.
InCall(u, c) ==
  /\ Includes(calls[c].participants, u)
  /\ life[u] = "mounted"
  /\ init[u] = "done"
  /\ lis[u] = c

\* C2: in an active call, once every snapshot has been delivered and nothing
\* is outstanding, every pair of listed participants has completed
\* negotiation: offer stored by the smaller ID, answer to it stored by the
\* larger ID, and that answer set as the offerer's remote description.
C2_FullMesh ==
  Settled =>
    \A c \in ActiveCalls : \A a, b \in Users :
      (StrLess(a, b) /\ InCall(a, c) /\ InCall(b, c)) => Negotiated(c, a, b)

C4_UnmountRemoves ==
  \A u \in Users :
    (life[u] = "unmounted" /\ callId[u] # NoCall /\ clean[u] = <<>>) =>
      ~Includes(calls[callId[u]].participants, u)

\* The step at which initializeCall of client u ends.
InitEnds(u) == init[u] \in {"media1", "media2"} /\ init'[u] = "done"

\* C5: whatever getUserMedia grants, initializeCall ends with a local
\* stream and, in a mounted component, isCallActive true and isJoining
\* false; the stream has video and audio if both are granted, audio with
\* isVideoOff if only audio is, and no track with isVideoOff and isMicMuted
\* if nothing is; and no step of the media phase runs cleanup or onEndCall
\* or fails initializeCall.
C5_MediaFallback ==
  [][\A u \in Users :
       /\ (init[u] \in {"media1", "media2"}) =>
            /\ init'[u] \in {"media1", "media2", "done"}
            /\ (init'[u] # init[u]) =>
                 (cleanups'[u] = cleanups[u] /\ ended'[u] = ended[u])
       /\ InitEnds(u) =>
            /\ stream'[u] # NoStream
            /\ (life[u] = "mounted") => (isCallActive'[u] /\ ~isJoining'[u])
            /\ (perm[u] = "both") => (stream'[u] = {"video", "audio"})
            /\ (perm[u] = "audio") =>
                 /\ stream'[u] = {"audio"}
                 /\ (life[u] = "mounted") => isVideoOff'[u]
            /\ (perm[u] = "none") =>
                 /\ stream'[u] = {}
                 /\ (life[u] = "mounted") =>
                      (isVideoOff'[u] /\ isMicMuted'[u])]_vars

\* A client whose devices grant nothing is in the call, view-only.
C5_Witness ==
  \E u \in Users :
    /\ perm[u] = "none"
    /\ init[u] = "done"
    /\ life[u] = "mounted"
    /\ stream[u] = {}
    /\ isCallActive[u] /\ isVideoOff[u] /\ isMicMuted[u]

\* The step at which the candidates listener of connection n of client u
\* receives document c, sent by the peer, with no remote description set.
ArrivesEarly(u, n, c) ==
  /\ CandSnapshot(u, n, c)
  /\ c.sender # u
  /\ RemoteDescription(pcs[u][n]) = NoDesc

\* C6: a candidate of the peer that arrives while the connection has no
\* remote description is scheduled for one retry after RetryDelay; when the
\* retry runs the candidate is added if and only if a remote description is
\* set by then, and no further retry is scheduled.
C6_RetriedOnce ==
  [][/\ \A u \in Users : \A n \in DOMAIN pcs[u] : \A c \in cands :
          ArrivesEarly(u, n, c) =>
            /\ [u |-> u, n |-> n, c |-> c, left |-> RetryDelay] \in timers'
            /\ c \notin pcs'[u][n].added
     /\ \A tm \in timers :
          TimerFires(tm) =>
            /\ tm.c \notin pcs[tm.u][tm.n].retried
            /\ (tm.c \in pcs'[tm.u][tm.n].added) <=>
                 (RemoteDescription(pcs[tm.u][tm.n]) # NoDesc)
            /\ \A t2 \in timers' : ~(t2.u = tm.u /\ t2.n = tm.n /\ t2.c = tm.c)
    ]_vars

\* Nothing the program does on its own is outstanding in a call whose
\* members stay: no initializeCall and no participants handler is between
\* two awaits, every snapshot has been delivered, every answer stored and
\* no retry is pending.
IceSettled ==
  /\ \A u \in Users : init[u] \in {"idle", "done"}
  /\ \A u \in Users : tasks[u] = <<>>
  /\ timers = {}
  /\ ~ENABLED (\E u \in Users : CallSnapshotBegin(u))
  /\ ~ENABLED Signalling
  /\ ~ENABLED (\E u \in Users : \E n \in DOMAIN pcs[u] :
                 \E c \in cands : CandSnapshot(u, n, c))

\* The offerer of the pair of u and v has restarted ICE on a connection to
\* the other and a later offer of that connection is in the document.
Renegotiating(c, u, v) ==
  LET a == IF StrLess(u, v) THEN u ELSE v
      b == IF StrLess(u, v) THEN v ELSE u
      key == <<c, a \o <<Underscore>> \o b>>
  IN \E m \in PcsFor(a, b) :
       /\ pcs[a][m].restart
       /\ key \in DOMAIN conn
       /\ conn[key].offer.by = a
       /\ conn[key].offer.pc = m
       /\ conn[key].offer.seq > 1

\* C7: the answerer side never restarts ICE, and once nothing is
\* outstanding a connection whose state is 'failed' or 'disconnected' has
\* had ICE restarted by the offerer of its pair and a new offer of that
\* connection written to the connection document.
C7_Reconnection ==
  \A u \in Users : \A n \in DOMAIN pcs[u] :
    /\ pcs[u][n].restart => StrLess(u, pcs[u][n].peer)
    /\ (IceSettled /\ pcs[u][n].connectionState \in {"failed", "disconnected"})
         => Renegotiating(pcs[u][n].call, u, pcs[u][n].peer)

\* C8: every candidate a connection has emitted (all of them after its
\* local description was set) is in the candidates sub-collection of its
\* connection document with the client as sender.
C8_CandidatesStored ==
  \A u \in Users : \A n \in DOMAIN pcs[u] :
    \A k \in 1..pcs[u][n].emitted :
      \E c \in cands :
        /\ c.sender = u /\ c.pc = n /\ c.k = k
        /\ c.call = pcs[u][n].call
        /\ c.connId = pcs[u][n].connId

\* C9: at most one groupCalls document of the group has status 'active'.
C9_OneActiveCall == Cardinality(ActiveCalls) <= 1

\* No initializeCall is between its query and its write and no cleanup
\* between its getDoc and its updateDoc.
NoWritePending ==
  \A u \in Users : init[u] # "write" /\ clean[u] = <<>>

\* The join write of client u succeeded and u has not left.
JoinedAndStays(u) ==
  /\ init[u] \in {"media1", "media2", "done"}
  /\ life[u] = "mounted"
  /\ ~cleanups[u]

\* Client u had joined (initializeCall ended in its mounted component) and
\* has then left: onEndCall has been called.
HasLeft(u) ==
  /\ init[u] = "done"
  /\ ~isJoining[u]
  /\ ended[u]

\* C10: once no write is pending, the participants of an active call hold
\* every user whose join write succeeded and who has not left, and no user
\* who has left.
C10_NoLostUpdate ==
  NoWritePending =>
    \A u \in Users :
      (callDocId[u] # NoCall /\ calls[callDocId[u]].status = "active") =>
        /\ JoinedAndStays(u) => Includes(calls[callDocId[u]].participants, u)
        /\ HasLeft(u) => ~Includes(calls[callDocId[u]].participants, u)

(***************************************************************************)
(* Claims about the mesh when a third member joins.                        *)
(***************************************************************************)

\* C11: while a remote participant stays in the call, a client creates a
\* peer connection to it only once: a client never holds two connections to
\* the same participant, and every connection it has made is either the one
\* peerConnectionsRef holds for that participant or has been closed.
C11_SetupOnce ==
  \A u \in Users : \A v \in Users :
    /\ Cardinality(PcsFor(u, v)) <= 1
    /\ \A n \in PcsFor(u, v) : n = pcRef[u][v] \/ pcs[u][n].closed

\* C12: when a participant is no longer in the participants of a call that
\* stays active, then, once every snapshot has been delivered and nothing is
\* outstanding, every client still in the call has closed each connection
\* it made to that participant, holds none for it in peerConnectionsRef and
\* no longer has it in its participants state.
C12_LeaverCleaned ==
  Settled =>
    \A c \in ActiveCalls : \A a \in Users : \A b \in Users \ {a} :
      (InCall(a, c) /\ ~Includes(calls[c].participants, b)) =>
        /\ pcRef[a][b] = 0
        /\ \A n \in PcsFor(a, b) : pcs[a][n].closed
        /\ ~Includes(participants[a], b)

\* C13: on the answerer of a pair, createAnswer is executed at most once per
\* peer connection, however many snapshots of the connection document are
\* delivered and however their handlers interleave.
C13_OneAnswer ==
  \A u \in Users : \A n \in DOMAIN pcs[u] : pcs[u][n].answers <= 1

(***************************************************************************)
(* Claims about the candidates listener.                                   *)
(***************************************************************************)

\* No field of the three the listener asks for is missing from the document.
HasAllFields(data) ==
  {"sdpMLineIndex", "candidate", "sdpMid"} \subseteq DOMAIN data

\* C15: a candidate document of the other side is rejected as incomplete
\* exactly when one of sdpMLineIndex, candidate, sdpMid is missing, and a
\* complete document, whatever its sdpMLineIndex from 0 on, is offered to
\* the connection: added at once, or held for the retry while the remote
\* description is unset.
C15_CompleteOffered ==
  [][\A u \in Users : \A n \in DOMAIN pcs[u] : \A c \in cands :
       (CandSnapshot(u, n, c) /\ c.sender # u) =>
         /\ Incomplete(c) <=> ~HasAllFields(c)
         /\ (HasAllFields(c) /\ ~pcs[u][n].closed) =>
              \/ c \in pcs'[u][n].added
              \/ \E tm \in timers' : tm.u = u /\ tm.n = n /\ tm.c = c]_vars

\* C16: addIceCandidate is never invoked on a connection whose remote
\* description is unset, neither on first receipt nor in the delayed retry,
\* and a client never adds a candidate it sent itself.
C16_AddedAfterRemote ==
  [][\A u \in Users : \A n \in DOMAIN pcs[u] :
       \A c \in pcs'[u][n].added \ pcs[u][n].added :
         /\ RemoteDescription(pcs[u][n]) # NoDesc
         /\ c.sender # u]_vars

\* A candidate of the other side that arrived before the remote description
\* has been added by the delayed retry, the remote description set by then.
C16_Witness ==
  \E u \in Users : \E n \in DOMAIN pcs[u] :
    /\ RemoteDescription(pcs[u][n]) # NoDesc
    /\ \E c \in pcs[u][n].added \cap pcs[u][n].retried : c.sender # u

(***************************************************************************)
(* Claims about the end of a call.  No code deletes a groupCalls document, *)
(* so the listener's branch for a deleted document is never entered.       *)
(***************************************************************************)

\* C17: a call document whose status is 'ended' never returns to 'active',
\* and every client whose listener receives the ended document runs
\* cleanup and onEndCall: its tracks are stopped, its connections closed
\* and its dialog closed.
C17_EndedStays ==
  [][/\ \A c \in DOMAIN calls :
          calls[c].status = "ended" => calls'[c].status = "ended"
     /\ \A u \in Users :
          (CallSnapshot(u) /\ calls[lis[u]].status = "ended") =>
            /\ cleanups'[u] /\ ended'[u]
            /\ life'[u] # "mounted"
            /\ stream'[u] = NoStream
            /\ \A n \in DOMAIN pcs'[u] :
                 n \in {pcRef[u][p] : p \in Users} => pcs'[u][n].closed]_vars

\* A participant who is not the creator has received the ended call
\* document on its listener and has reacted.
C17_Witness ==
  \E u \in Users :
    /\ lis[u] # NoCall
    /\ calls[lis[u]].creatorId # u
    /\ calls[lis[u]].status = "ended"
    /\ snap[u] = CallSnap(lis[u])
    /\ cleanups[u] /\ ended[u]

(***************************************************************************)
(* Claims about the copy of the component.                                 *)
(***************************************************************************)

\* C18: when initializeCall has failed and the cleanup of its error path
\* has returned, the user is in the participants of no call document: a
\* user added before the failure has been removed again.
C18_FailureRemoves ==
  \A u \in Users :
    (init[u] = "failed" /\ clean[u] = <<>>) =>
      \A c \in DOMAIN calls : ~Includes(calls[c].participants, u)

====
